---- MODULE Spec2Model ----
(***************************************************************************)
(* neobench: the command-line entry point (main.go).  The model covers    *)
(* main's start-up sequence (workload parsing, dataset initialisation),   *)
(* runBenchmark's orchestration of N worker goroutines, awaitCompletion's  *)
(* polling loop and collectResults' merge of the per-worker results.       *)
(*                                                                         *)
(* Time is counted in units of 100ms (the polling interval of             *)
(* awaitCompletion); the clock is observed where the orchestrator reads    *)
(* it, and advances when one of its sleeps returns.                        *)
(***************************************************************************)
EXTENDS Integers, Sequences, FiniteSets, Bags, TLC

(* ------------------------------ bounds -------------------------------- *)
MaxWorkloads == 2      \* length of the -w list
MaxClients == 2        \* -c, number of workers
MaxDuration == 3       \* -d, seconds
MaxRateClients == 3    \* -c where only the pacing is looked at
Rates == {1, 10, 25, 100}   \* -r, whole numbers of transactions per second

(* ------------------------- program constants -------------------------- *)
TicksPerSecond == 10          \* time.Second in units of 100ms
PollInterval == 1             \* time.Millisecond * 100
FinalSleepThreshold == 20     \* 2 * time.Second
DefaultClients == 1           \* default of --clients
DefaultRate == 1              \* default of --rate
BuiltinWorkload == "builtin:tpcb-like"
DefaultWorkloads == << <<BuiltinWorkload>> >>

(* ----------------------- workload arguments --------------------------- *)
\* A string is a sequence of tokens; "@" is the separator strings.Split
\* looks for.  The files on disk: good.script is well formed, bad.script
\* lacks a terminating ';', missing.script does not exist.
Paths == {BuiltinWorkload, "good.script", "bad.script", "missing.script"}
WeightTexts == {"2", "0", "-1", "x"}
WorkloadArgs == {<<p>> : p \in Paths} \cup {<<p, "@", w>> : p \in Paths, w \in WeightTexts}

RECURSIVE Split(_)
\* strings.Split(s, "@"): the parts between the separators, at least one.
Split(s) ==
    IF s = <<>> THEN << <<>> >>
    ELSE LET rest == Split(Tail(s))
         IN  IF Head(s) = "@" THEN << <<>> >> \o rest
             ELSE << <<Head(s)>> \o Head(rest) >> \o Tail(rest)

\* strconv.Atoi: [err, val]
Atoi(s) ==
    IF s = <<"2">> THEN [err |-> FALSE, val |-> 2]
    ELSE IF s = <<"0">> THEN [err |-> FALSE, val |-> 0]
    ELSE IF s = <<"-1">> THEN [err |-> FALSE, val |-> -1]
    ELSE [err |-> TRUE, val |-> 0]

\* A uint is written as four 16-bit limbs, most significant first.
WordBase == 65536

\* uint(weight): the int taken modulo 2^64 (for |weight| < 2^16).
ToUint(n) ==
    IF n >= 0 THEN <<0, 0, 0, n>>
    ELSE <<WordBase - 1, WordBase - 1, WordBase - 1, WordBase + n>>

\* --encryption values a user may write, and those the switch accepts.
EncryptionModes == {"auto", "maybe"}
ValidEncryptionModes == {"auto", "true", "yes", "y", "1", "false", "no", "n", "0"}

\* -D values a user may write: an integer with a float, an integer with a word.
DefineLists == {<<"7", "1.5">>, <<"7", "abc">>}

\* strconv.ParseInt(v, 10, 64)
ParseInt(v) == IF v = "7" THEN [err |-> FALSE, val |-> [kind |-> "int", text |-> v]]
               ELSE [err |-> TRUE, val |-> [kind |-> "none", text |-> v]]

\* strconv.ParseFloat(v, 64)
ParseFloat(v) == IF v \in {"7", "1.5"} THEN [err |-> FALSE, val |-> [kind |-> "float", text |-> v]]
                 ELSE [err |-> TRUE, val |-> [kind |-> "none", text |-> v]]

RECURSIVE parseDefines(_, _)
\* Lines 96-108: the loop over fVariables; [err, vals]
parseDefines(defs, i) ==
    IF i > Len(defs) THEN [err |-> FALSE, vals |-> <<>>]
    ELSE LET intVal == ParseInt(defs[i])
             floatVal == ParseFloat(defs[i])
             rest == parseDefines(defs, i + 1)
         IN  IF ~intVal.err
             THEN [err |-> rest.err, vals |-> <<intVal.val>> \o rest.vals]
             ELSE IF ~floatVal.err
                  THEN [err |-> rest.err, vals |-> <<floatVal.val>> \o rest.vals]
                  ELSE [err |-> TRUE, vals |-> <<>>]

(* ------------------------------ float64 ------------------------------- *)
\* A positive float64 is [m, e] with value m * 2^e; the 53-bit significand m
\* is written as two limbs <<hi, lo>> of 27 bits, 2^25 <= hi < 2^26.
LimbBase == 134217728
SignificandTop == 33554432
SignificandBits == 53

BigGE(a, b) == a[1] > b[1] \/ (a[1] = b[1] /\ a[2] >= b[2])

BigSub(a, b) == IF a[2] >= b[2] THEN <<a[1] - b[1], a[2] - b[2]>>
                ELSE <<a[1] - b[1] - 1, a[2] + LimbBase - b[2]>>

BigDouble(a) == <<2 * a[1] + (2 * a[2]) \div LimbBase, (2 * a[2]) % LimbBase>>

BigHalf(a) == <<a[1] \div 2, (a[1] % 2) * (LimbBase \div 2) + a[2] \div 2>>

BigInc(a) == IF a[2] + 1 = LimbBase THEN <<a[1] + 1, 0>> ELSE <<a[1], a[2] + 1>>

RECURSIVE Normalize(_, _)
Normalize(m, e) == IF m[1] >= SignificandTop THEN [m |-> m, e |-> e]
                   ELSE Normalize(BigDouble(m), e - 1)

\* float64(n) for an integer 0 < n < 2^27: exact
Float64(n) == Normalize(<<0, n>>, 0)

RECURSIVE DivBits(_, _, _, _)
\* n more quotient bits of r / d by long division: [q, r]
DivBits(q, r, d, n) ==
    IF n = 0 THEN [q |-> q, r |-> r]
    ELSE LET r2 == BigDouble(r)
             q2 == BigDouble(q)
         IN  IF q2[2] % 2 = 0 /\ BigGE(r2, d)   \* 2q is even: adding one sets its last bit
             THEN DivBits(BigInc(q2), BigSub(r2, d), d, n - 1)
             ELSE DivBits(q2, r2, d, n - 1)

\* a / b in float64: 53 significant bits of the quotient, rounded to nearest,
\* ties to even.
FDiv(a, b) ==
    LET ge == BigGE(a.m, b.m)
        qr == IF ge THEN DivBits(<<0, 1>>, BigSub(a.m, b.m), b.m, SignificandBits - 1)
              ELSE DivBits(<<0, 0>>, a.m, b.m, SignificandBits)
        e == a.e - b.e - (IF ge THEN SignificandBits - 1 ELSE SignificandBits)
        r2 == BigDouble(qr.r)
        up == IF r2 = b.m THEN qr.q[2] % 2 = 1 ELSE BigGE(r2, b.m)
        q == IF up THEN BigInc(qr.q) ELSE qr.q
    IN  IF q[1] >= 2 * SignificandTop THEN [m |-> BigHalf(q), e |-> e + 1]
        ELSE [m |-> q, e |-> e]

RECURSIVE Shr(_, _)
Shr(m, k) == IF k = 0 \/ m = <<0, 0>> THEN m ELSE Shr(BigHalf(m), k - 1)

\* time.Duration(f): the float cut off to an integer (for 0 <= f < 2^27)
Trunc(f) == LET m == Shr(f.m, 0 - f.e) IN m[1] * LimbBase + m[2]

\* Lines 183-187, in microseconds (time.Microsecond == 1).  With no client
\* rate / 0 is +Inf and 1000*1000 / +Inf is 0.
ratePerWorkerDurationOf(latencyMode, numClients, rate) ==
    IF ~latencyMode THEN 0
    ELSE IF numClients = 0 THEN 0
    ELSE LET ratePerWorkerPerSecond == FDiv(Float64(rate), Float64(numClients))
         IN  Trunc(FDiv(Float64(1000 * 1000), ratePerWorkerPerSecond))

\* ioutil.ReadFile: [err, content]
ReadFile(path) ==
    IF path = <<"good.script">> THEN [err |-> FALSE, content |-> "wellformed"]
    ELSE IF path = <<"bad.script">> THEN [err |-> FALSE, content |-> "unterminated"]
    ELSE [err |-> TRUE, content |-> ""]

\* neobench.Parse: [err, script]
Parse(name, content, weight) ==
    IF content = "wellformed"
    THEN [err |-> FALSE, script |-> [name |-> name, weight |-> weight]]
    ELSE [err |-> TRUE, script |-> [name |-> <<>>, weight |-> ToUint(0)]]

createScript(path, weight) ==
    IF path = <<BuiltinWorkload>>
    THEN Parse(<<"builtin:tpcp-like">>, "wellformed", weight)
    ELSE LET f == ReadFile(path)
         IN  IF f.err THEN [err |-> TRUE, script |-> [name |-> <<>>, weight |-> ToUint(0)]]
             ELSE Parse(path, f.content, weight)

RECURSIVE initWorkloadFrom(_, _)
\* initWorkload: the builtin initialiser is called for the first path that
\* equals "builtin:tpcb-like"; the result says whether it is called.
initWorkloadFrom(paths, i) ==
    IF i > Len(paths) THEN FALSE
    ELSE IF paths[i] = <<BuiltinWorkload>> THEN TRUE
    ELSE initWorkloadFrom(paths, i + 1)

initWorkloadCallsInit(paths) == initWorkloadFrom(paths, 1)

(* --------------------------- worker results --------------------------- *)
\* The values a worker can report, kept small: two latency buckets holding at
\* most one sample each, two error signatures, two shapes of failure group.
Buckets == 1..2
SampleCounts == 0..1
Histograms == [Buckets -> SampleCounts]
ErrorKeys == {"e1", "e2"}
FailureGroups == {[Count |-> 1, FirstFailure |-> 2], [Count |-> 2, FirstFailure |-> 1]}
FailureMaps == UNION {[ks -> FailureGroups] : ks \in SUBSET ErrorKeys}
NoError == "nil"
WorkerErrors == {NoError, "connection lost"}

RECURSIVE SumF(_, _)
SumF(f, S) == IF S = {} THEN 0
              ELSE LET x == CHOOSE y \in S : TRUE IN f[x] + SumF(f, S \ {x})

\* A WorkerResult as a worker builds it: one latency sample per succeeded
\* transaction, one failure-group count per failed one, and the rate of
\* all of them over an active run of one time unit.
WorkerResultOf(e, h, g) ==
    LET succeeded == SumF(h, Buckets)
        failed == SumF([k \in DOMAIN g |-> g[k].Count], DOMAIN g)
    IN  [Error |-> e, Rate |-> succeeded + failed,
         Succeeded |-> succeeded, Failed |-> failed,
         Latencies |-> h, FailedByErrorGroup |-> g]

WorkerResults ==
    {WorkerResultOf(e, h, g) : e \in WorkerErrors, h \in Histograms, g \in FailureMaps}

NoResult == [Error |-> "pending"]
NoInterval == -1          \* RunBenchmark has not been called
\* A ProgressReport's Completeness is the fraction Num / Den.
NoReport == [Step |-> "none", Num |-> 0, Den |-> 1]
NilHistogram == <<>>      \* a nil *hdrhistogram.Histogram

\* What a worker of the orchestration runs may return: a clean or a crashed
\* result, with no or one latency sample per bucket count in the first bucket.
RunResults ==
    {r \in WorkerResults :
        /\ DOMAIN r.FailedByErrorGroup = {}
        /\ \A b \in Buckets : b > 1 => r.Latencies[b] = 0
        /\ r.Latencies[1] = IF r.Error = NoError THEN 1 ELSE 0}

VARIABLES
    fWorkloads,     \* -w list
    fInitMode,      \* --init
    fDuration,      \* -d, seconds
    fClients,       \* -c
    fEncryptionMode, \* -e
    fVariables,     \* -D values
    fLatencyMode,   \* -l
    fRate,          \* -r, transactions per second
    variables,      \* the parsed -D values
    pc,             \* position of the main goroutine
    workloadIdx,    \* index of the for loop over fWorkloads
    scripts,        \* scripts parsed so far
    initCalls,      \* calls of neobench.InitTPCBLike
    initFailed,     \* InitTPCBLike returned an error
    exitCode,       \* process exit code, -1 while running
    report,         \* final report handed to the output
    stopCh,         \* "open" or "closed"
    stopCallers,    \* who has invoked stop()
    spawned,        \* loop index of the spawn loop
    wpc,            \* position of each worker goroutine
    wres,           \* result of each worker's RunBenchmark
    wg,             \* sync.WaitGroup counter
    resultChan,     \* buffered channel of WorkerResult
    ratePerWorkerDuration, \* microseconds
    winterval,      \* the interval each worker's RunBenchmark was called with
    originalDelta,  \* awaitCompletion's local
    progress,       \* the last ProgressReport given to the output
    now,            \* time.Now() as last observed
    deadline,
    wake,           \* instant at which the pending time.Sleep returns
    total,          \* Result returned by collectResults
    err,            \* error returned by collectResults
    resultsBuilt    \* number of aggregate Results constructed

vars == <<fWorkloads, fInitMode, fDuration, fClients, fEncryptionMode, fVariables,
          fLatencyMode, fRate, ratePerWorkerDuration, winterval, originalDelta, progress,
          variables, pc, workloadIdx, scripts,
          initCalls, initFailed, exitCode, report, stopCh, stopCallers, spawned,
          wpc, wres, wg, resultChan, now, deadline, wake, total, err, resultsBuilt>>

configVars == <<fWorkloads, fInitMode, fDuration, fClients, fEncryptionMode, fVariables,
                fLatencyMode, fRate>>
paceVars == <<ratePerWorkerDuration, winterval>>
progressVars == <<originalDelta, progress>>
mainVars == <<variables, workloadIdx, scripts, initCalls, initFailed, exitCode, report>>
workerVars == <<wpc, wres, wg, resultChan>>
timeVars == <<now, deadline, wake>>
resultVars == <<total, err, resultsBuilt>>

Workers == 1..fClients

EmptyResult ==
    [Scenario |-> "", TotalRate |-> 0, TotalSucceeded |-> 0, TotalFailed |-> 0,
     TotalLatencies |-> NilHistogram, FailedByErrorGroup |-> <<>>, Workers |-> <<>>]

(* --------------------------- collectResults --------------------------- *)
\* Histogram.Export: the snapshot of the bucket counts.
Export(h) == [Counts |-> [b \in Buckets |-> h[b]]]

\* hdrhistogram.Import: a new histogram holding the snapshot's counts.
Import(s) == [b \in Buckets |-> s.Counts[b]]

\* Histogram.Merge: every bar of `from` is recorded into h.
Merge(h, from) == [b \in Buckets |-> h[b] + from[b]]

\* Mutation of mergeFailureGroups: a found group is overwritten, not added to.
mergeFailureGroups_Overwrite(existing, groups) ==
    [name \in (DOMAIN existing) \cup (DOMAIN groups) |->
        IF name \in DOMAIN groups THEN groups[name] ELSE existing[name]]

\* Lines 253-263: the loop over res.FailedByErrorGroup.
mergeFailureGroups(existing, groups) ==
    [name \in (DOMAIN existing) \cup (DOMAIN groups) |->
        IF name \in DOMAIN groups
        THEN IF name \in DOMAIN existing
             THEN [Count |-> existing[name].Count + groups[name].Count,
                   FirstFailure |-> existing[name].FirstFailure]
             ELSE groups[name]
        ELSE existing[name]]

\* A *hdrhistogram.Histogram is an index into the heap, the sequence of the
\* histogram objects; NilRef is the nil pointer.  The histogram of the j-th
\* received result is object j.
NilRef == 0

\* Mutation of combineHistogram: later histograms are not merged into the copy.
combineHistogram_NoMerge(heap, combinedHistogram, res) ==
    IF combinedHistogram = NilRef
    THEN [heap |-> Append(heap, Import(Export(heap[res.Latencies]))),
          combinedHistogram |-> Len(heap) + 1]
    ELSE [heap |-> heap, combinedHistogram |-> combinedHistogram]

\* Mutation of combineHistogram: the first histogram is used itself, not a copy.
combineHistogram_NoCopy(heap, combinedHistogram, res) ==
    IF combinedHistogram = NilRef
    THEN [heap |-> heap, combinedHistogram |-> res.Latencies]
    ELSE [heap |-> [heap EXCEPT ![combinedHistogram] = Merge(@, heap[res.Latencies])],
          combinedHistogram |-> combinedHistogram]

\* Lines 244-249: the heap and the combined histogram after one more
\* non-fatal result; Import allocates a new object, Merge changes one.
combineHistogram(heap, combinedHistogram, res) ==
    IF combinedHistogram = NilRef
    THEN [heap |-> Append(heap, Import(Export(heap[res.Latencies]))),
          combinedHistogram |-> Len(heap) + 1]
    ELSE [heap |-> [heap EXCEPT ![combinedHistogram] = Merge(@, heap[res.Latencies])],
          combinedHistogram |-> combinedHistogram]

\* Mutation of collectOne: a result with an Error is merged like any other.
collectOne_MergesFatal(acc, res) ==
    LET c == combineHistogram(acc.heap, acc.combinedHistogram, res)
    IN  [combinedHistogram |-> c.combinedHistogram,
         heap |-> c.heap,
         total |-> [acc.total EXCEPT
                       !.TotalRate = @ + res.Rate,
                       !.TotalSucceeded = @ + res.Succeeded,
                       !.TotalFailed = @ + res.Failed,
                       !.FailedByErrorGroup = mergeFailureGroups(@, res.FailedByErrorGroup)]]

\* One iteration of `for _, res := range results`.
collectOne(acc, res) ==
    IF res.Error # NoError
    THEN acc
    ELSE LET c == combineHistogram(acc.heap, acc.combinedHistogram, res)
         IN  [combinedHistogram |-> c.combinedHistogram,
              heap |-> c.heap,
              total |-> [acc.total EXCEPT
                            !.TotalRate = @ + res.Rate,
                            !.TotalSucceeded = @ + res.Succeeded,
                            !.TotalFailed = @ + res.Failed,
                            !.FailedByErrorGroup = mergeFailureGroups(@, res.FailedByErrorGroup)]]

RECURSIVE collectLoop(_, _, _)
collectLoop(acc, results, i) ==
    IF i > Len(results) THEN acc
    ELSE collectLoop(collectOne(acc, results[i]), results, i + 1)

\* The received results with their histograms put on the heap.
heapOf(results) == [j \in DOMAIN results |-> results[j].Latencies]
refsOf(results) == [j \in DOMAIN results |-> [results[j] EXCEPT !.Latencies = j]]

\* The Result as its reader sees it: every histogram pointer followed.
deref(result, heap, combinedHistogram) ==
    [result EXCEPT !.TotalLatencies = heap[combinedHistogram],
                  !.Workers = [j \in DOMAIN result.Workers |->
                                 [result.Workers[j] EXCEPT !.Latencies = heap[@]]]]

\* Mutation of collectResults: one failed worker fails the whole run.
collectResults_FailsOnAnyError(scenario, results) ==
    LET start == [combinedHistogram |-> NilRef,
                  heap |-> heapOf(results),
                  total |-> [EmptyResult EXCEPT !.Scenario = scenario,
                                                !.Workers = refsOf(results)]]
        acc == collectLoop(start, refsOf(results), 1)
    IN  IF acc.combinedHistogram = NilRef
           \/ \E i \in DOMAIN results : results[i].Error # NoError
        THEN [total |-> EmptyResult, err |-> "all workers failed"]
        ELSE [total |-> deref(acc.total, acc.heap, acc.combinedHistogram), err |-> "nil"]

\* collectResults once the results are received: [total, err].
collectResults(scenario, results) ==
    LET start == [combinedHistogram |-> NilRef,
                  heap |-> heapOf(results),
                  total |-> [EmptyResult EXCEPT !.Scenario = scenario,
                                                !.Workers = refsOf(results)]]
        acc == collectLoop(start, refsOf(results), 1)
    IN  IF acc.combinedHistogram = NilRef
        THEN [total |-> EmptyResult, err |-> "all workers failed"]
        ELSE [total |-> deref(acc.total, acc.heap, acc.combinedHistogram), err |-> "nil"]

describeScenario == <<fWorkloads, fClients, fDuration, fInitMode>>

(* ------------------------------- main --------------------------------- *)
\* log.Fatal / log.Fatalf: the process exits with status 1.
Fatal ==
    /\ pc' = "exit"
    /\ exitCode' = 1

\* Lines 77-108: the encryption mode is checked, the driver is made, the -D
\* values are parsed.
CheckFlags ==
    /\ pc = "flags"
    /\ LET defs == parseDefines(fVariables, 1)
       IN  IF fEncryptionMode \notin ValidEncryptionModes \/ defs.err
           THEN Fatal /\ UNCHANGED variables
           ELSE /\ variables' = defs.vals
                /\ pc' = "parse"
                /\ UNCHANGED exitCode
    /\ UNCHANGED <<configVars, paceVars, progressVars, workloadIdx, scripts, initCalls, initFailed, report,
                   stopCh, stopCallers, spawned, workerVars, timeVars, resultVars>>

\* Mutation of ParseWorkload: a script that fails to load is skipped.
ParseWorkload_SkipsBadScript ==
    /\ pc = "parse"
    /\ IF workloadIdx > Len(fWorkloads)
       THEN /\ pc' = "init"
            /\ UNCHANGED <<workloadIdx, scripts, exitCode>>
       ELSE LET parts == Split(fWorkloads[workloadIdx])
                w == IF Len(parts) > 1 THEN Atoi(parts[2]) ELSE [err |-> FALSE, val |-> 1]
                path == IF Len(parts) > 1 THEN parts[1] ELSE fWorkloads[workloadIdx]
                s == createScript(path, ToUint(w.val))
            IN  IF w.err
                THEN Fatal /\ UNCHANGED <<workloadIdx, scripts>>
                ELSE /\ scripts' = IF s.err THEN scripts ELSE Append(scripts, s.script)
                     /\ workloadIdx' = workloadIdx + 1
                     /\ UNCHANGED <<pc, exitCode>>
    /\ UNCHANGED <<configVars, paceVars, progressVars, variables, initCalls, initFailed, report, stopCh,
                   stopCallers, spawned, workerVars, timeVars, resultVars>>

\* Lines 111-126: one iteration of the loop over fWorkloads, or its end.
ParseWorkload ==
    /\ pc = "parse"
    /\ IF workloadIdx > Len(fWorkloads)
       THEN /\ pc' = "init"
            /\ UNCHANGED <<workloadIdx, scripts, exitCode>>
       ELSE LET parts == Split(fWorkloads[workloadIdx])
                w == IF Len(parts) > 1 THEN Atoi(parts[2]) ELSE [err |-> FALSE, val |-> 1]
                path == IF Len(parts) > 1 THEN parts[1] ELSE fWorkloads[workloadIdx]
                s == createScript(path, ToUint(w.val))
            IN  IF w.err \/ s.err
                THEN Fatal /\ UNCHANGED <<workloadIdx, scripts>>
                ELSE /\ scripts' = Append(scripts, s.script)
                     /\ workloadIdx' = workloadIdx + 1
                     /\ UNCHANGED <<pc, exitCode>>
    /\ UNCHANGED <<configVars, paceVars, progressVars, variables, initCalls, initFailed, report, stopCh,
                   stopCallers, spawned, workerVars, timeVars, resultVars>>

\* Lines 134-139: the dataset initialiser; it may fail.
InitWorkload ==
    /\ pc = "init"
    /\ IF fInitMode /\ initWorkloadCallsInit(fWorkloads)
       THEN /\ initCalls' = initCalls + 1
            /\ \E failed \in BOOLEAN :
                 /\ initFailed' = failed
                 /\ IF failed THEN Fatal ELSE pc' = "run" /\ UNCHANGED exitCode
       ELSE /\ pc' = "run"
            /\ UNCHANGED <<initCalls, initFailed, exitCode>>
    /\ UNCHANGED <<configVars, paceVars, progressVars, variables, workloadIdx, scripts, report, stopCh,
                   stopCallers, spawned, workerVars, timeVars, resultVars>>

(* ---------------------------- runBenchmark ---------------------------- *)
\* Mutation of Stop: closing a closed channel fails, as a bare close() does.
Stop_FailsWhenClosed(caller) ==
    /\ stopCh = "open"
    /\ stopCh' = "closed"
    /\ stopCallers' = stopCallers \cup {caller}

\* stop(): closes the stop channel; closing it again changes nothing.
Stop(caller) ==
    /\ stopCh' = "closed"
    /\ stopCallers' = stopCallers \cup {caller}

\* Lines 180-190: the signal handler is installed, the channel is made.
EnterRunBenchmark ==
    /\ pc = "run"
    /\ ratePerWorkerDuration' = ratePerWorkerDurationOf(fLatencyMode, fClients, fRate)
    /\ pc' = "spawn"
    /\ UNCHANGED <<configVars, winterval, progressVars, mainVars, stopCh, stopCallers, spawned, workerVars,
                   timeVars, resultVars>>

\* Lines 191-205: one iteration of the loop that starts the goroutines.
SpawnWorker ==
    /\ pc = "spawn"
    /\ spawned < fClients
    /\ spawned' = spawned + 1
    /\ wg' = wg + 1
    /\ wpc' = [wpc EXCEPT ![spawned + 1] = "running"]
    /\ winterval' = [winterval EXCEPT ![spawned + 1] = ratePerWorkerDuration]
    /\ UNCHANGED <<configVars, ratePerWorkerDuration, progressVars, mainVars, pc, stopCh, stopCallers, wres, resultChan,
                   timeVars, resultVars>>

\* Lines 207-212 and 298: the first progress report, the deadline is set,
\* awaitCompletion is entered.
StartDeadline ==
    /\ pc = "spawn"
    /\ spawned >= fClients
    /\ progress' = [Step |-> "run", Num |-> 0, Den |-> 1]
    /\ deadline' = now + fDuration * TicksPerSecond
    /\ originalDelta' = (now + fDuration * TicksPerSecond) - now
    /\ pc' = "await"
    /\ UNCHANGED <<configVars, paceVars, mainVars, stopCh, stopCallers, spawned, workerVars,
                   now, wake, resultVars>>

\* Mutation of AwaitCompletion: with less than two seconds left the loop is
\* left without sleeping.
AwaitCompletion_NoFinalSleep ==
    /\ pc = "await"
    /\ IF stopCh = "closed"
       THEN pc' = "stop" /\ UNCHANGED <<wake, progress>>
       ELSE LET delta == deadline - now
            IN  IF delta < FinalSleepThreshold
                THEN /\ wake' = now
                     /\ pc' = "final_sleep"
                     /\ UNCHANGED progress
                ELSE /\ progress' = [Step |-> "run", Num |-> originalDelta - delta,
                                     Den |-> originalDelta]
                     /\ wake' = now + PollInterval
                     /\ pc' = "poll_sleep"
    /\ UNCHANGED <<configVars, paceVars, originalDelta, mainVars, stopCh, stopCallers, spawned, workerVars,
                   now, deadline, resultVars>>

\* Mutation of AwaitCompletion: the progress report precedes the test for
\* the last two seconds.
AwaitCompletion_ReportsFirst ==
    /\ pc = "await"
    /\ IF stopCh = "closed"
       THEN pc' = "stop" /\ UNCHANGED <<wake, progress>>
       ELSE LET delta == deadline - now
            IN  /\ progress' = [Step |-> "run", Num |-> originalDelta - delta,
                                Den |-> originalDelta]
                /\ IF delta < FinalSleepThreshold
                   THEN /\ wake' = IF delta > 0 THEN now + delta ELSE now
                        /\ pc' = "final_sleep"
                   ELSE /\ wake' = now + PollInterval
                        /\ pc' = "poll_sleep"
    /\ UNCHANGED <<configVars, paceVars, originalDelta, mainVars, stopCh, stopCallers,
                   spawned, workerVars, now, deadline, resultVars>>

\* Lines 299-318: one pass of awaitCompletion's loop up to its sleep.
AwaitCompletion ==
    /\ pc = "await"
    /\ IF stopCh = "closed"
       THEN pc' = "stop" /\ UNCHANGED <<wake, progress>>
       ELSE LET delta == deadline - now
            IN  IF delta < FinalSleepThreshold
                THEN /\ wake' = IF delta > 0 THEN now + delta ELSE now
                     /\ pc' = "final_sleep"
                     /\ UNCHANGED progress
                ELSE /\ progress' = [Step |-> "run", Num |-> originalDelta - delta,
                                     Den |-> originalDelta]
                     /\ wake' = now + PollInterval
                     /\ pc' = "poll_sleep"
    /\ UNCHANGED <<configVars, paceVars, originalDelta, mainVars, stopCh, stopCallers, spawned, workerVars,
                   now, deadline, resultVars>>

\* Line 317: time.Sleep(100ms) returns, the loop starts over.
PollSleepReturns ==
    /\ pc = "poll_sleep"
    /\ now' = wake
    /\ pc' = "await"
    /\ UNCHANGED <<configVars, paceVars, progressVars, mainVars, stopCh, stopCallers, spawned, workerVars,
                   deadline, wake, resultVars>>

\* Lines 309-310: time.Sleep(delta) returns, break leaves the loop.
FinalSleepReturns ==
    /\ pc = "final_sleep"
    /\ now' = wake
    /\ pc' = "stop"
    /\ UNCHANGED <<configVars, paceVars, progressVars, mainVars, stopCh, stopCallers, spawned, workerVars,
                   deadline, wake, resultVars>>

\* Mutation of StopWorkers: the orchestrator goes on to the join without stop().
StopWorkers_NoStop ==
    /\ pc = "stop"
    /\ progress' = [Step |-> "stopping", Num |-> 0, Den |-> 1]
    /\ pc' = "wait"
    /\ UNCHANGED <<configVars, paceVars, originalDelta, mainVars, stopCh, stopCallers,
                   spawned, workerVars, timeVars, resultVars>>

\* Lines 214-219: the orchestrator's own stop().
StopWorkers ==
    /\ pc = "stop"
    /\ Stop(<<"main", 0>>)
    /\ progress' = [Step |-> "stopping", Num |-> 0, Den |-> 1]
    /\ pc' = "wait"
    /\ UNCHANGED <<configVars, paceVars, originalDelta, mainVars, spawned, workerVars, timeVars, resultVars>>

\* Mutation of WgWait: the orchestrator does not wait for the counter.
WgWait_NoJoin ==
    /\ pc = "wait"
    /\ pc' = "collect"
    /\ UNCHANGED <<configVars, paceVars, progressVars, mainVars, stopCh, stopCallers, spawned, workerVars,
                   timeVars, resultVars>>

\* Line 220: wg.Wait() returns once the counter is zero.
WgWait ==
    /\ pc = "wait"
    /\ wg = 0
    /\ pc' = "collect"
    /\ UNCHANGED <<configVars, paceVars, progressVars, mainVars, stopCh, stopCallers, spawned, workerVars,
                   timeVars, resultVars>>

\* Lines 222-273 and 181: collectResults receives `concurrency` results,
\* merges them, and the deferred stop() runs on return.
CollectResults ==
    /\ pc = "collect"
    /\ Len(resultChan) >= fClients
    /\ LET results == SubSeq(resultChan, 1, fClients)
           r == collectResults(describeScenario, results)
       IN  /\ total' = r.total
           /\ err' = r.err
           /\ resultChan' = SubSeq(resultChan, fClients + 1, Len(resultChan))
    /\ resultsBuilt' = resultsBuilt + 1
    /\ Stop(<<"defer", 0>>)
    /\ pc' = "returned"
    /\ UNCHANGED <<configVars, paceVars, progressVars, mainVars, spawned, wpc, wres, wg, timeVars>>

\* Lines 141-157: the result is reported, or the error is.
MainFinish ==
    /\ pc = "returned"
    /\ pc' = "exit"
    /\ IF err # "nil"
       THEN exitCode' = 1 /\ UNCHANGED report
       ELSE exitCode' = 0 /\ report' = "result"
    /\ UNCHANGED <<configVars, paceVars, progressVars, variables, workloadIdx, scripts, initCalls, initFailed,
                   stopCh, stopCallers, spawned, workerVars, timeVars, resultVars>>

\* The process receives an interrupt while the signal handler is installed.
Interrupt ==
    /\ pc \in {"spawn", "await", "poll_sleep", "final_sleep", "stop", "wait", "collect"}
    /\ stopCh = "open"
    /\ Stop(<<"signal", 0>>)
    /\ UNCHANGED <<configVars, paceVars, progressVars, mainVars, pc, spawned, workerVars, timeVars, resultVars>>

(* ------------------------- worker goroutines -------------------------- *)
\* Line 198: worker.RunBenchmark returns, cleanly once the stop channel is
\* closed, with an Error at any time.
WorkerReturns(i) ==
    /\ wpc[i] = "running"
    /\ \E r \in RunResults :
         /\ r.Error # NoError \/ stopCh = "closed"
         /\ wres' = [wres EXCEPT ![i] = r]
    /\ wpc' = [wpc EXCEPT ![i] = "returned"]
    /\ UNCHANGED <<configVars, paceVars, progressVars, mainVars, pc, stopCh, stopCallers, spawned, wg,
                   resultChan, timeVars, resultVars>>

\* Mutation of WorkerSends: the result is sent twice.
WorkerSends_Twice(i) ==
    /\ wpc[i] = "returned"
    /\ resultChan' = Append(Append(resultChan, wres[i]), wres[i])
    /\ wpc' = [wpc EXCEPT ![i] = "sent"]
    /\ UNCHANGED <<configVars, paceVars, progressVars, mainVars, pc, stopCh, stopCallers, spawned, wres, wg,
                   timeVars, resultVars>>

\* Line 199: resultChan <- result
WorkerSends(i) ==
    /\ wpc[i] = "returned"
    /\ Len(resultChan) < fClients
    /\ resultChan' = Append(resultChan, wres[i])
    /\ wpc' = [wpc EXCEPT ![i] = "sent"]
    /\ UNCHANGED <<configVars, paceVars, progressVars, mainVars, pc, stopCh, stopCallers, spawned, wres, wg,
                   timeVars, resultVars>>

\* Mutation of WorkerChecksError: a crashed worker does not stop the run.
WorkerChecksError_NoStop(i) ==
    /\ wpc[i] = "sent"
    /\ wpc' = [wpc EXCEPT ![i] = "exiting"]
    /\ UNCHANGED <<configVars, paceVars, progressVars, mainVars, pc, stopCh, stopCallers, spawned, wres, wg,
                   resultChan, timeVars, resultVars>>

\* Lines 200-203: a crashed worker stops the run.
WorkerChecksError(i) ==
    /\ wpc[i] = "sent"
    /\ IF wres[i].Error # NoError
       THEN Stop(<<"worker", i>>)
       ELSE UNCHANGED <<stopCh, stopCallers>>
    /\ wpc' = [wpc EXCEPT ![i] = "exiting"]
    /\ UNCHANGED <<configVars, paceVars, progressVars, mainVars, pc, spawned, wres, wg, resultChan,
                   timeVars, resultVars>>

\* Line 197: the deferred wg.Done()
WorkerDone(i) ==
    /\ wpc[i] = "exiting"
    /\ wg' = wg - 1
    /\ wpc' = [wpc EXCEPT ![i] = "done"]
    /\ UNCHANGED <<configVars, paceVars, progressVars, mainVars, pc, stopCh, stopCallers, spawned, wres,
                   resultChan, timeVars, resultVars>>

(* --------------------------- specifications --------------------------- *)
InitState ==
    /\ pc = "flags"
    /\ variables = <<>>
    /\ workloadIdx = 1
    /\ scripts = <<>>
    /\ initCalls = 0
    /\ initFailed = FALSE
    /\ exitCode = -1
    /\ report = "none"
    /\ stopCh = "open"
    /\ stopCallers = {}
    /\ spawned = 0
    /\ wpc = [i \in Workers |-> "idle"]
    /\ wres = [i \in Workers |-> NoResult]
    /\ wg = 0
    /\ resultChan = <<>>
    /\ ratePerWorkerDuration = 0
    /\ winterval = [i \in Workers |-> NoInterval]
    /\ originalDelta = 0
    /\ progress = NoReport
    /\ now = 0
    /\ deadline = 0
    /\ wake = 0
    /\ total = EmptyResult
    /\ err = "nil"
    /\ resultsBuilt = 0

\* Every form of the workload list, default concurrency.
Init ==
    /\ fWorkloads \in UNION {[1..n -> WorkloadArgs] : n \in 1..MaxWorkloads}
    /\ fInitMode \in BOOLEAN
    /\ fDuration \in 0..MaxDuration
    /\ fClients = DefaultClients
    /\ fEncryptionMode \in EncryptionModes
    /\ fVariables \in DefineLists
    /\ fLatencyMode = FALSE
    /\ fRate = DefaultRate
    /\ InitState

\* The default workload, every concurrency and duration.
InitRun ==
    /\ fWorkloads = DefaultWorkloads
    /\ fInitMode = FALSE
    /\ fDuration \in 0..MaxDuration
    /\ fClients \in 0..MaxClients
    /\ fEncryptionMode = "auto"
    /\ fVariables = <<>>
    /\ fLatencyMode = FALSE
    /\ fRate = DefaultRate
    /\ InitState

Next ==
    \/ CheckFlags
    \/ ParseWorkload
    \/ InitWorkload
    \/ EnterRunBenchmark
    \/ SpawnWorker
    \/ StartDeadline
    \/ AwaitCompletion
    \/ PollSleepReturns
    \/ FinalSleepReturns
    \/ StopWorkers
    \/ WgWait
    \/ CollectResults
    \/ MainFinish
    \/ Interrupt
    \/ \E i \in Workers : WorkerReturns(i)
    \/ \E i \in Workers : WorkerSends(i)
    \/ \E i \in Workers : WorkerChecksError(i)
    \/ \E i \in Workers : WorkerDone(i)

Spec == Init /\ [][Next]_vars

SpecRun == InitRun /\ [][Next]_vars

\* The steps of the main goroutine; its sleeps return.
MainStep ==
    \/ CheckFlags
    \/ ParseWorkload
    \/ InitWorkload
    \/ EnterRunBenchmark
    \/ SpawnWorker
    \/ StartDeadline
    \/ AwaitCompletion
    \/ PollSleepReturns
    \/ FinalSleepReturns
    \/ StopWorkers
    \/ WgWait
    \/ CollectResults
    \/ MainFinish

\* The scheduler runs every goroutine that can run, and a worker's
\* RunBenchmark returns once the stop channel is closed.  No crash and no
\* interrupt ever has to happen.
SpecRunFair ==
    /\ InitRun
    /\ [][Next]_vars
    /\ WF_vars(MainStep)
    /\ \A i \in 1..MaxClients :
         /\ WF_vars(i \in Workers /\ stopCh = "closed" /\ WorkerReturns(i))
         /\ WF_vars(i \in Workers /\ WorkerSends(i))
         /\ WF_vars(i \in Workers /\ WorkerChecksError(i))
         /\ WF_vars(i \in Workers /\ WorkerDone(i))

\* collectResults alone: the state in which runBenchmark calls it, for every
\* list of results the workers can have left on the channel.
InitCollect ==
    /\ fWorkloads = DefaultWorkloads
    /\ fInitMode = FALSE
    /\ fDuration = 0
    /\ fClients \in 0..MaxClients
    /\ fEncryptionMode = "auto"
    /\ fVariables = <<>>
    /\ fLatencyMode = FALSE
    /\ fRate = DefaultRate
    /\ variables = <<>>
    /\ ratePerWorkerDuration = 0
    /\ winterval = [i \in Workers |-> 0]
    /\ originalDelta = 0
    /\ progress = [Step |-> "stopping", Num |-> 0, Den |-> 1]
    /\ resultChan \in [Workers -> WorkerResults]
    /\ wres = resultChan
    /\ wpc = [i \in Workers |-> "done"]
    /\ wg = 0
    /\ spawned = fClients
    /\ pc = "collect"
    /\ workloadIdx = 2
    /\ scripts = << [name |-> <<"builtin:tpcp-like">>, weight |-> ToUint(1)] >>
    /\ initCalls = 0
    /\ initFailed = FALSE
    /\ exitCode = -1
    /\ report = "none"
    /\ stopCh = "closed"
    /\ stopCallers = {<<"main", 0>>} \cup
                     {<<"worker", i>> : i \in {j \in Workers : resultChan[j].Error # NoError}}
    /\ now = 0
    /\ deadline = 0
    /\ wake = 0
    /\ total = EmptyResult
    /\ err = "nil"
    /\ resultsBuilt = 0

NextCollect ==
    \/ CollectResults
    \/ MainFinish

SpecCollect == InitCollect /\ [][NextCollect]_vars

\* The pacing of the workers alone: runBenchmark is entered in either mode
\* with every rate of Rates and starts its workers.
InitRate ==
    /\ fWorkloads = DefaultWorkloads
    /\ fInitMode = FALSE
    /\ fDuration = 0
    /\ fClients \in 0..MaxRateClients
    /\ fEncryptionMode = "auto"
    /\ fVariables = <<>>
    /\ fLatencyMode \in BOOLEAN
    /\ fRate \in Rates
    /\ InitState

NextRate ==
    \/ CheckFlags
    \/ ParseWorkload
    \/ InitWorkload
    \/ EnterRunBenchmark
    \/ SpawnWorker

SpecRate == InitRate /\ [][NextRate]_vars

(* ------------------------------ properties ---------------------------- *)
\* collectResults has returned
Collected == pc \in {"returned", "exit"} /\ resultsBuilt = 1

\* the workers whose result carries no Error
NonFatal == {i \in Workers : wres[i].Error = NoError}
FatalWorkers == Workers \ NonFatal

BagOfSeq(s) ==
    [x \in {s[i] : i \in DOMAIN s} |-> Cardinality({i \in DOMAIN s : s[i] = x})]

MinOf(S) == CHOOSE x \in S : \A y \in S : x <= y

\* the non-fatal workers that reported the error group `name`
Reporters(name) == {i \in NonFatal : name \in DOMAIN wres[i].FailedByErrorGroup}

\* C1: collectResults (and the run) fails if and only if every worker result
\* carries an Error; with at least one result without Error it returns a
\* Result and a nil error, and the process does not exit with a failure.
C1_ErrorIffAllWorkersFailed ==
    Collected =>
        /\ (err # "nil") <=> (NonFatal = {})
        /\ NonFatal # {} => total.Workers # <<>> /\ total.TotalLatencies # NilHistogram
        /\ pc = "exit" => ((exitCode = 1) <=> (NonFatal = {}))

C1_Witness ==
    /\ Collected /\ pc = "exit"
    /\ NonFatal # {} /\ FatalWorkers # {}
    /\ err = "nil" /\ exitCode = 0

\* C2: with at least one non-fatal worker, the totals are the sums over the
\* non-fatal workers only, and Result.Workers holds all N worker results.
C2_TotalsSumNonFatalWorkers ==
    (Collected /\ NonFatal # {}) =>
        /\ total.TotalSucceeded = SumF([i \in Workers |-> wres[i].Succeeded], NonFatal)
        /\ total.TotalFailed = SumF([i \in Workers |-> wres[i].Failed], NonFatal)
        /\ total.TotalRate = SumF([i \in Workers |-> wres[i].Rate], NonFatal)
        /\ Len(total.Workers) = fClients
        /\ BagOfSeq(total.Workers) = BagOfSeq(wres)

C2_Witness ==
    /\ Collected
    /\ Cardinality(NonFatal) >= 1
    /\ \E i \in FatalWorkers : wres[i].Succeeded > 0 /\ wres[i].Failed > 0
    /\ total.TotalSucceeded > 0 /\ total.TotalFailed > 0
    /\ Len(total.Workers) > Cardinality(NonFatal)

\* C3: for every error group of the merged map, FirstFailure is the earliest
\* FirstFailure among the non-fatal workers that reported the group.
C3_EarliestFirstFailure ==
    (Collected /\ NonFatal # {}) =>
        \A name \in DOMAIN total.FailedByErrorGroup :
            Reporters(name) # {} =>
                total.FailedByErrorGroup[name].FirstFailure =
                    MinOf({wres[i].FailedByErrorGroup[name].FirstFailure : i \in Reporters(name)})

\* C4: the merged map's keys are the union of the non-fatal workers' keys,
\* and every merged Count is the sum of the key's Counts over those workers.
C4_FailureCountsSum ==
    (Collected /\ NonFatal # {}) =>
        /\ DOMAIN total.FailedByErrorGroup =
               UNION {DOMAIN wres[i].FailedByErrorGroup : i \in NonFatal}
        /\ \A name \in DOMAIN total.FailedByErrorGroup :
               total.FailedByErrorGroup[name].Count =
                   SumF([i \in Workers |->
                            IF name \in DOMAIN wres[i].FailedByErrorGroup
                            THEN wres[i].FailedByErrorGroup[name].Count ELSE 0],
                        NonFatal)

C4_Witness ==
    /\ Collected
    /\ \E i, j \in NonFatal :
         /\ i # j
         /\ "e1" \in DOMAIN wres[i].FailedByErrorGroup
         /\ "e1" \in DOMAIN wres[j].FailedByErrorGroup
         /\ "e2" \in DOMAIN wres[i].FailedByErrorGroup
         /\ "e2" \notin DOMAIN wres[j].FailedByErrorGroup
    /\ DOMAIN total.FailedByErrorGroup = {"e1", "e2"}
    /\ total.FailedByErrorGroup["e1"].Count > total.FailedByErrorGroup["e2"].Count

\* C10: the merged histogram holds, bucket by bucket, the samples of all
\* non-fatal workers and no others, whatever the order of the results.
C10_MergedHistogramIsUnion ==
    (Collected /\ NonFatal # {}) =>
        total.TotalLatencies =
            [b \in Buckets |-> SumF([i \in Workers |-> wres[i].Latencies[b]], NonFatal)]

C10_Witness ==
    /\ Collected
    /\ \E i, j \in NonFatal :
         /\ i < j
         /\ wres[i].Latencies # wres[j].Latencies
         /\ SumF(wres[i].Latencies, Buckets) > SumF(wres[j].Latencies, Buckets)
         /\ SumF(wres[j].Latencies, Buckets) > 0
    /\ SumF(total.TotalLatencies, Buckets) >= 3

\* C5: awaitCompletion ends at the earlier of the stop signal and the
\* deadline: once the stop channel is closed, a sleep of the orchestrator
\* ends within one polling interval; when it returns with the channel still
\* open, the deadline has just elapsed.
C5_AwaitEndsAtEarlierEvent ==
    /\ (pc \in {"poll_sleep", "final_sleep"} /\ stopCh = "closed") =>
           wake - now <= PollInterval
    /\ (pc = "stop" /\ stopCh = "open") => now = deadline

AnyWorkerStarted == \E i \in Workers : wpc[i] # "idle"

\* every worker goroutine has run its deferred wg.Done()
AllJoined == \A i \in Workers : wpc[i] = "done"

\* C6: collectResults is entered only after every worker has finished, with
\* exactly N results on the channel; the aggregate Result is built exactly
\* once per run and never while a worker is still running.
C6_JoinBeforeCollect ==
    /\ pc = "collect" => AllJoined /\ Len(resultChan) = fClients
    /\ resultsBuilt >= 1 => AllJoined
    /\ resultsBuilt <= 1
    /\ pc = "returned" => resultsBuilt = 1
    /\ (pc = "exit" /\ (AnyWorkerStarted \/ exitCode = 0)) => resultsBuilt = 1
    /\ pc \notin {"returned", "exit"} => resultsBuilt = 0

C6_Witness ==
    /\ pc = "returned"
    /\ fClients >= 2
    /\ resultsBuilt = 1
    /\ AllJoined

\* the result of worker i has been placed on the result channel
ResultSent(i) ==
    \/ \E j \in DOMAIN resultChan : resultChan[j] = wres[i]
    \/ \E j \in DOMAIN total.Workers : total.Workers[j] = wres[i]
    \/ resultsBuilt >= 1

Crashed(i) == wres[i].Error \notin {NoError, "pending"}

\* C7: a worker whose result carries an Error invokes stop() after its
\* result is on the channel and before it is joined: a joined crashed worker
\* has closed the stop channel, and it did so with its result already sent.
C7_CrashTriggersStop ==
    \A i \in Workers :
        /\ (Crashed(i) /\ wpc[i] = "done") =>
               stopCh = "closed" /\ <<"worker", i>> \in stopCallers
        /\ <<"worker", i>> \in stopCallers =>
               Crashed(i) /\ wpc[i] \in {"exiting", "done"} /\ ResultSent(i)

C7_Witness ==
    \E i, j \in Workers :
        /\ Crashed(i) /\ wpc[i] = "done"
        /\ stopCallers = {<<"worker", i>>}
        /\ wpc[j] = "running"
        /\ pc \in {"poll_sleep", "final_sleep"}

\* the script a workload argument names: the text before the first "@"
ScriptPath(arg) == Split(arg)[1]

\* the script cannot be read or does not parse
BadScript(arg) == ScriptPath(arg) \in {<<"bad.script">>, <<"missing.script">>}

\* C8: when a configured script cannot be read or parsed, no worker ever
\* runs, runBenchmark is never entered and no report is produced, wherever
\* the script stands in the list.
C8_BadScriptAbortsBeforeRun ==
    (\E k \in DOMAIN fWorkloads : BadScript(fWorkloads[k])) =>
        /\ ~AnyWorkerStarted
        /\ pc \in {"flags", "parse", "exit"}
        /\ spawned = 0 /\ wg = 0
        /\ report = "none" /\ resultsBuilt = 0
        /\ exitCode \in {-1, 1}

C8_Witness ==
    /\ Len(fWorkloads) = 2
    /\ ~BadScript(fWorkloads[1]) /\ BadScript(fWorkloads[2])
    /\ Len(scripts) = 1
    /\ pc = "exit" /\ exitCode = 1
    /\ ~AnyWorkerStarted

\* the built-in workload is among the configured workloads
BuiltinConfigured ==
    \E k \in DOMAIN fWorkloads : ScriptPath(fWorkloads[k]) = <<BuiltinWorkload>>

\* C9: with --init and the built-in workload configured, with or without a
\* weight suffix, the initialiser has run exactly once, successfully, before
\* any worker starts; if it fails no worker starts.
C9_InitOnceBeforeWorkers ==
    (fInitMode /\ BuiltinConfigured) =>
        /\ initCalls <= 1
        /\ AnyWorkerStarted => initCalls = 1 /\ ~initFailed
        /\ initFailed => ~AnyWorkerStarted

\* the texts strconv.Atoi accepts, and those -D accepts as a number
IntegerTexts == {<<"2">>, <<"0">>, <<"-1">>}
NumberTexts == {"7", "1.5"}

\* the workload argument has a weight suffix that is not an integer
InvalidWeight(arg) == Len(Split(arg)) > 1 /\ Split(arg)[2] \notin IntegerTexts

\* the command line is invalid, and nothing fails before that is detected
InvalidUsage ==
    \/ fEncryptionMode \notin ValidEncryptionModes
    \/ \E i \in DOMAIN fVariables : fVariables[i] \notin NumberTexts
    \/ \E k \in DOMAIN fWorkloads :
         /\ InvalidWeight(fWorkloads[k])
         /\ \A j \in 1..(k - 1) : ~BadScript(fWorkloads[j])

\* C11: the process exits with 2 on invalid usage (encryption mode, -D value,
\* workload weight), with 1 when the run fails and with 0 when it succeeds.
C11_ExitCodes ==
    pc = "exit" =>
        /\ InvalidUsage => exitCode = 2
        /\ (resultsBuilt = 1 /\ err # "nil") => exitCode = 1
        /\ (resultsBuilt = 1 /\ err = "nil") => exitCode = 0
        /\ exitCode \in {0, 1, 2}

\* the integer written after "@", 1 without a suffix
WrittenWeight(arg) == IF Len(Split(arg)) > 1 THEN Atoi(Split(arg)[2]).val ELSE 1

\* C15: the weight of every parsed script is a positive integer, the one
\* written after "@" or 1, so that the total weight is positive.
C15_WeightsPositive ==
    \A k \in DOMAIN scripts :
        /\ WrittenWeight(fWorkloads[k]) >= 1
        /\ scripts[k].weight = <<0, 0, 0, WrittenWeight(fWorkloads[k])>>

\* the workers that have executed their send
Senders == {i \in Workers : wpc[i] \in {"sent", "exiting", "done"}}

\* C12: every worker sends its one result once, after RunBenchmark returned;
\* the channel never holds more than N results and no send has to wait, while
\* the orchestrator receives nothing before collectResults.
C12_OneResultPerWorker ==
    /\ Len(resultChan) <= fClients
    /\ resultsBuilt = 0 =>
         /\ Len(resultChan) = Cardinality(Senders)
         /\ \A r \in RunResults :
              Cardinality({j \in DOMAIN resultChan : resultChan[j] = r}) =
              Cardinality({i \in Senders : wres[i] = r})
    /\ \A i \in Workers :
         /\ wpc[i] = "returned" => Len(resultChan) < fClients
         /\ wpc[i] \in {"idle", "running"} => wres[i] = NoResult
         /\ i \in Senders => wres[i] \in RunResults

C12_Witness ==
    /\ fClients >= 2
    /\ Len(resultChan) = fClients
    /\ resultsBuilt = 0
    /\ pc \in {"poll_sleep", "final_sleep"}
    /\ ~AllJoined

\* C13: while the stop channel is open awaitCompletion does not return before
\* the deadline; without interrupt and crash the orchestrator's stop() comes
\* no earlier than the run duration after the start, also for short runs.
C13_NoReturnBeforeDeadline ==
    /\ (pc = "stop" /\ stopCh = "open") => now >= deadline
    /\ (<<"main", 0>> \in stopCallers /\ stopCallers \subseteq {<<"main", 0>>, <<"defer", 0>>}) =>
           now >= fDuration * TicksPerSecond

C13_Witness ==
    /\ stopCallers = {<<"main", 0>>}
    /\ fDuration = 1
    /\ now = TicksPerSecond
    /\ pc = "wait"

\* no caller of stop() is held up or fails
InvokersProceed ==
    /\ pc = "stop" => ENABLED StopWorkers
    /\ (pc = "collect" /\ Len(resultChan) >= fClients) => ENABLED CollectResults
    /\ \A i \in Workers : wpc[i] = "sent" => ENABLED WorkerChecksError(i)

\* C14: whoever calls stop() and in whatever order, the stop channel stays
\* closed once it is closed, a later call changes nothing about it, and no
\* caller blocks or fails.
C14_StopIdempotent ==
    /\ []InvokersProceed
    /\ [][/\ stopCh = "closed" => stopCh' = "closed"
          /\ stopCallers \subseteq stopCallers'
          /\ (stopCh = "closed" /\ stopCallers' # stopCallers) => stopCh' = stopCh]_vars

C14_Witness ==
    /\ pc = "returned"
    /\ stopCh = "closed"
    /\ \E i \in Workers : <<"worker", i>> \in stopCallers
    /\ {<<"main", 0>>, <<"defer", 0>>, <<"signal", 0>>} \subseteq stopCallers

\* C16: in latency mode each worker is started with the interval N / rate
\* seconds cut off to whole microseconds, in throughput mode with 0.
C16_PerWorkerInterval ==
    \A i \in Workers : wpc[i] # "idle" =>
        winterval[i] = IF fLatencyMode THEN (fClients * 1000 * 1000) \div fRate ELSE 0

\* C17: the Completeness of every progress report lies in [0, 1].
C17_CompletenessInUnitInterval ==
    /\ progress.Den > 0
    /\ 0 <= progress.Num
    /\ progress.Num <= progress.Den

C17_Witness ==
    /\ progress.Step = "run"
    /\ progress.Num > 0
    /\ progress.Num < progress.Den
    /\ pc = "poll_sleep"
    /\ fDuration = MaxDuration

\* C18: the stop channel is closed when the orchestrator reaches wg.Wait,
\* collectResults finds all N results on the channel, and every run ends:
\* wg.Wait returns, the results are collected, the process exits.
C18_RunTerminates ==
    /\ [](pc = "wait" => stopCh = "closed")
    /\ [](pc = "collect" => Len(resultChan) = fClients)
    /\ <>(pc = "exit" /\ resultsBuilt = 1 /\ resultChan = <<>>)

C18_Witness ==
    /\ pc = "exit"
    /\ resultsBuilt = 1
    /\ fClients >= 2
    /\ <<"signal", 0>> \in stopCallers
    /\ \E i \in Workers : <<"worker", i>> \in stopCallers

\* C19: after collectResults every entry of Result.Workers is what the worker
\* reported, its histogram included; the merges went into a copy.
C19_WorkerResultsUntouched ==
    (Collected /\ err = "nil") =>
        /\ Len(total.Workers) = fClients
        /\ \A j \in Workers : total.Workers[j] = wres[j]

C19_Witness ==
    /\ Collected
    /\ err = "nil"
    /\ fClients >= 2
    /\ \A j \in Workers : /\ wres[j].Error = NoError
                          /\ \E b \in Buckets : wres[j].Latencies[b] > 0
    /\ total.TotalLatencies # wres[1].Latencies

====
